---------------------------- MODULE Spec2Model ----------------------------
(***************************************************************************)
(* A model of cds_eda.eda (src/cds-eda/cds_eda/eda.py): the working data   *)
(* frame self.df and the operations versionsDay, keepLatestVersion,        *)
(* removeInsufficientData, removeOutliers and aggregateTimeSimilar.        *)
(*                                                                         *)
(* A data frame is a sequence of rows; a row is a function from column     *)
(* names to values.  The set of column names is kept beside the rows       *)
(* (an empty frame still has columns), because the operations look columns *)
(* up by name and raise when a name is absent.                             *)
(*                                                                         *)
(* Values.  A timestamp is day * TicksPerDay + tick, days counted from     *)
(* 1 January of a non-leap year.  A ticker is a sequence of character      *)
(* codes.  A float that may be NaN is <<>> (NaN) or <<v>>.  Medians of an  *)
(* even number of integers may be half-integers, so a median is carried as *)
(* twice its value and a median of such deviations as four times its value.*)
(***************************************************************************)
EXTENDS Integers, Sequences, FiniteSets, TLC

VARIABLES
    df,       \* self.df: the rows, in row order
    cols,     \* the column names of self.df
    index,    \* self.df's index: its name ("" when unnamed) and its labels
    status,   \* "ok", or the exception the last call raised
    ops,      \* the calls made so far, oldest first
    input,    \* the frame the eda object was constructed with
    prev,     \* the frame the last call started from
    aux       \* intermediate frames of the last call (df_grouped, df_trades_mad, ...)

vars == <<df, cols, index, status, ops, input, prev, aux>>

----------------------------------------------------------------------------
(* Generic helpers *)

Range(s) == {s[i] : i \in DOMAIN s}

Min(S) == CHOOSE x \in S : \A y \in S : x <= y

Max(S) == CHOOSE x \in S : \A y \in S : y <= x

Abs(x) == IF x < 0 THEN -x ELSE x

RECURSIVE SumSeq(_)
SumSeq(s) == IF s = <<>> THEN 0 ELSE Head(s) + SumSeq(Tail(s))

\* The concatenation of the sequences of ss, halving ss to keep the
\* evaluation shallow.
RECURSIVE Concat(_)
Concat(ss) ==
    IF ss = <<>> THEN <<>>
    ELSE IF Len(ss) = 1 THEN ss[1]
    ELSE LET h == Len(ss) \div 2
         IN  Concat(SubSeq(ss, 1, h)) \o Concat(SubSeq(ss, h + 1, Len(ss)))

\* The elements of the finite set S in some order.
RECURSIVE SetToSeq(_)
SetToSeq(S) ==
    IF S = {} THEN <<>>
    ELSE LET x == CHOOSE y \in S : TRUE IN <<x>> \o SetToSeq(S \ {x})

\* The elements of the finite set of integers S in ascending order.
RECURSIVE SortedSeq(_)
SortedSeq(S) ==
    IF Cardinality(S) <= 1 THEN SetToSeq(S)
    ELSE LET mid == (Min(S) + Max(S)) \div 2
         IN  SortedSeq({y \in S : y <= mid}) \o SortedSeq({y \in S : y > mid})

\* All sequences over S of length 0..n.
SeqsUpTo(S, n) == UNION {[1..k -> S] : k \in 0..n}

NaN == <<>>

IsNaN(x) == x = <<>>

Val(x) == x[1]

----------------------------------------------------------------------------
(* Calendar: what .year, .month, .day and pd.Grouper(freq=...) compute *)

MonthLengths == <<31, 28, 31, 30, 31, 30, 31, 31, 30, 31, 30, 31>>

DaysPerYear == SumSeq(MonthLengths)

\* Resolution of the time of day.
TicksPerDay == 2

Stamp(day, tick) == day * TicksPerDay + tick

\* Grouper(freq='D'): the calendar day of a timestamp.
DayOf(ts) == ts \div TicksPerDay

YearOf(ts) == DayOf(ts) \div DaysPerYear

DayOfYear(ts) == DayOf(ts) % DaysPerYear

\* Days of the year before month m (1-based).
CumDays == [m \in 1..Len(MonthLengths) |-> SumSeq(SubSeq(MonthLengths, 1, m - 1))]

DaysBefore(m) == CumDays[m]

\* The month (1-based) of each day of the year.
MonthOfDay ==
    [d \in 0..(DaysPerYear - 1) |->
        CHOOSE m \in 1..Len(MonthLengths) :
            CumDays[m] <= d /\ d < CumDays[m] + MonthLengths[m]]

MonthOf(ts) == MonthOfDay[DayOfYear(ts)]

DayOfMonth(ts) == DayOfYear(ts) - DaysBefore(MonthOf(ts)) + 1

----------------------------------------------------------------------------
(* Strings as sequences of character codes *)

\* Python's str comparison a < b: lexicographic, a proper prefix is smaller.
StrLess(a, b) ==
    \E i \in 1..(Len(b)) :
        /\ \A j \in 1..(i - 1) : j <= Len(a) /\ a[j] = b[j]
        /\ \/ i > Len(a)
           \/ a[i] < b[i]

\* agg 'max' over strings.
StrMax(S) == CHOOSE m \in S : \A x \in S : x = m \/ StrLess(x, m)


----------------------------------------------------------------------------
(* Frames *)

\* The labels of a RangeIndex of n rows: 0 .. n-1.
RangeLabels(n) == [i \in 1..n |-> i - 1]

RangeIndex(n) == [name |-> "", labels |-> RangeLabels(n)]

\* DataFrame.merge(how='left'): every left row, in order, once per matching
\* right row, or once with the right columns missing when none matches.
\* hits[i] holds the i-th left row joined with each right row it matches,
\* miss[i] the i-th left row with the right frame's columns filled with NaN.
LeftMerge(hits, miss) ==
    Concat([i \in DOMAIN hits |-> IF hits[i] = <<>> THEN <<miss[i]>> ELSE hits[i]])

\* The index labels of the rows at the positions keep, in row order.
KeptLabels(labels, keep) ==
    [k \in DOMAIN SortedSeq(keep) |-> labels[SortedSeq(keep)[k]]]

\* A row without column c / restricted to the columns C.
Drop(r, C) == [c \in (DOMAIN r) \ C |-> r[c]]

Project(r, C) == [c \in C |-> r[c]]

----------------------------------------------------------------------------
(* Version resolution: versionsDay, keepLatestVersion *)

\* Number of calls modelled on one eda object.
MaxOps == 3

\* lambda x: x[-2:]
VersionOf(ticker) ==
    IF Len(ticker) <= 2 THEN ticker
    ELSE SubSeq(ticker, Len(ticker) - 1, Len(ticker))

\* The merge key ['family', index.year, index.month, index.day] of a row whose
\* timestamp is ts.
JoinKeyNoMonth(family, ts) == <<family, YearOf(ts), 0, DayOfMonth(ts)>>

JoinKey(family, ts) == <<family, YearOf(ts), MonthOf(ts), DayOfMonth(ts)>>

\* groupby(['family', pd.Grouper(freq='D')]) on column col: the (family, day)
\* groups that hold a row.
DayGroups(frame, col) == {<<r.family, DayOf(r[col])>> : r \in Range(frame)}

InDayGroup(r, col, g) == r.family = g[1] /\ DayOf(r[col]) = g[2]

\* tradesVrsDay: per group, the number of distinct tickers; valueDate is the
\* day's bin label (midnight).
TradesVrsDay(frame) ==
    {[family |-> g[1], valueDate |-> Stamp(g[2], 0),
      NbVersionTickers |->
          Cardinality({r.ticker : r \in {x \in Range(frame) : InDayGroup(x, "valueDate", g)}})]
        : g \in DayGroups(frame, "valueDate")}

\* df_version: per group, the maximum Version.
DfVersion(frame) ==
    {[family |-> g[1], valueDate_hour |-> Stamp(g[2], 0),
      MaxVersion |->
          StrMax({r.Version : r \in {x \in Range(frame) : InDayGroup(x, "valueDate_hour", g)}})]
        : g \in DayGroups(frame, "valueDate_hour")}

VersionsDayCols == {"valueDate", "valueDate_hour", "family", "ticker"}

\* The frame versionsDay leaves in self.df.
VersionsDayFrame(frame) ==
    LET tvd == TradesVrsDay(frame)
        \* lines 64-69: the left frame's valueDate index is consumed by the merge
        m1 == LeftMerge(
                  [i \in DOMAIN frame |->
                      LET l == frame[i]
                          m == SetToSeq({g \in tvd : JoinKey(l.family, l.valueDate)
                                                        = JoinKey(g.family, g.valueDate)})
                      IN  [k \in DOMAIN m |->
                              Drop(l, {"valueDate"})
                                  @@ [NbVersionTickers |-> <<m[k].NbVersionTickers>>]]],
                  [i \in DOMAIN frame |->
                      Drop(frame[i], {"valueDate"}) @@ [NbVersionTickers |-> NaN]])
        \* lines 72-74
        m2 == [i \in DOMAIN m1 |->
                  m1[i] @@ [Version |-> VersionOf(m1[i].ticker),
                            valueDate |-> m1[i].valueDate_hour]]
        dv == DfVersion(m2)
    IN  \* lines 83-87: the valueDate_hour index is consumed by the merge
        LeftMerge(
            [i \in DOMAIN m2 |->
                LET l == m2[i]
                    m == SetToSeq({g \in dv : JoinKey(l.family, l.valueDate_hour)
                                                 = JoinKey(g.family, g.valueDate_hour)})
                IN  [k \in DOMAIN m |->
                        Drop(l, {"valueDate_hour"}) @@ [MaxVersion |-> m[k].MaxVersion]]],
            [i \in DOMAIN m2 |->
                Drop(m2[i], {"valueDate_hour"}) @@ [MaxVersion |-> NaN]])

\* A call and its arguments, as recorded in ops.
Call(name, args) == [op |-> name, args |-> args]

\* The call raises before it changes self.df.
Raise(exc, call) ==
    /\ status' = exc
    /\ ops' = Append(ops, call)
    /\ prev' = df
    /\ UNCHANGED <<df, cols, index, input, aux>>

\* A call is modelled while no earlier call raised and the frame has not been
\* aggregated (the aggregation ends the pipeline).
CanCall ==
    /\ status = "ok"
    /\ Len(ops) < MaxOps
    /\ IF ops = <<>> THEN TRUE ELSE ops[Len(ops)].op # "aggregateTimeSimilar"

versionsDay ==
    /\ CanCall
    /\ IF ~(VersionsDayCols \subseteq cols)
       THEN Raise("KeyError", Call("versionsDay", <<>>))
       ELSE LET out == VersionsDayFrame(df)
            IN  /\ df' = out
                /\ cols' = (cols \ {"valueDate_hour"})
                               \cup {"NbVersionTickers", "Version", "MaxVersion"}
                /\ index' = RangeIndex(Len(out))
                /\ aux' = [tradesVrsDay |-> TradesVrsDay(df)]
                /\ status' = "ok"
                /\ ops' = Append(ops, Call("versionsDay", <<>>))
                /\ prev' = df
                /\ UNCHANGED input

\* query('Version == MaxVersion')
IsLatest(r) == r.Version = r.MaxVersion

keepLatestVersion ==
    /\ CanCall
    /\ IF ~({"Version", "MaxVersion"} \subseteq cols)
       THEN Raise("UndefinedVariableError", Call("keepLatestVersion", <<>>))
       ELSE /\ df' = SelectSeq(df, IsLatest)
            /\ index' = [index EXCEPT !.labels = KeptLabels(index.labels, {i \in DOMAIN df : IsLatest(df[i])})]
            /\ status' = "ok"
            /\ ops' = Append(ops, Call("keepLatestVersion", <<>>))
            /\ prev' = df
            /\ UNCHANGED <<cols, input, aux>>

\* Trade records as the cleaning step and addUniverse hand them over:
\* valueDate_hour is a copy of valueDate (cleaning.py line 27).
VStamps == {Stamp(0, 0), Stamp(0, TicksPerDay - 1), Stamp(MonthLengths[1], 0)}

VTickers == {<<9>>, <<5, 0, 1>>, <<5, 1, 0>>, <<6, 1, 0>>}

VRows ==
    {[family |-> "A", valueDate |-> t, valueDate_hour |-> t, ticker |-> k]
        : t \in VStamps, k \in VTickers}
    \cup {[family |-> "B", valueDate |-> Stamp(0, 0), valueDate_hour |-> Stamp(0, 0),
           ticker |-> k] : k \in {<<5, 0, 1>>, <<5, 1, 0>>}}

\* Number of records of an input frame.
MaxRows == 3

InitVersion ==
    /\ df \in SeqsUpTo(VRows, MaxRows)
    /\ cols = VersionsDayCols
    /\ index = RangeIndex(Len(df))
    /\ status = "ok"
    /\ ops = <<>>
    /\ input = df
    /\ prev = df
    /\ aux = <<>>

NextVersion == versionsDay \/ keepLatestVersion

SpecVersion == InitVersion /\ [][NextVersion]_vars

----------------------------------------------------------------------------
(* Insufficient-data filtering: removeInsufficientData *)

HasSpread(r) == ~IsNaN(r.spread)

\* The rows of one (family, day) group, in order.
DayRows(frame, g) == SelectSeq(frame, LAMBDA r : InDayGroup(r, "valueDate", g))

\* np.average(x['spread'], weights=x['size']) raises ZeroDivisionError when the
\* weights of a group sum to zero.
WeightsSumToZero(frame) ==
    \E g \in DayGroups(frame, "valueDate") :
        SumSeq([i \in DOMAIN DayRows(frame, g) |-> DayRows(frame, g)[i].size]) = 0

\* The days on which family f has a row.
ActiveDays(frame, f) == {g[2] : g \in {x \in DayGroups(frame, "valueDate") : x[1] = f}}

\* date_diff: days since the family's previous active day, 0 on its first.
DateDiff(frame, f, d) ==
    LET before == {e \in ActiveDays(frame, f) : e < d}
    IN  IF before = {} THEN 0 ELSE d - Max(before)

\* df_mean: one row per (family, active day).
DfMean(frame) ==
    {[family |-> g[1], valueDate |-> Stamp(g[2], 0),
      date_diff |-> DateDiff(frame, g[1], g[2])]
        : g \in DayGroups(frame, "valueDate")}

\* pd.Grouper(freq=Group): the label of the bin of ts, the last day of its
\* year ('Y') or of its month ('M').
PeriodLabelMonthly(Group, ts) ==
    Stamp(YearOf(ts) * DaysPerYear + DaysBefore(MonthOf(ts))
              + MonthLengths[MonthOf(ts)] - 1, 0)

PeriodLabel(Group, ts) ==
    IF Group = "Y"
    THEN Stamp(YearOf(ts) * DaysPerYear + DaysPerYear - 1, 0)
    ELSE Stamp(YearOf(ts) * DaysPerYear + DaysBefore(MonthOf(ts))
                   + MonthLengths[MonthOf(ts)] - 1, 0)

\* df_grouped before the selection of line 141.  proportion_outlier is the
\* quotient daysMissing / total_days, kept as the pair.
DfGrouped(frame, daysDiffLimit, Group) ==
    LET dm == DfMean(frame)
        bins == {<<m.family, PeriodLabel(Group, m.valueDate)>> : m \in dm}
        In(m, b) == m.family = b[1] /\ PeriodLabel(Group, m.valueDate) = b[2]
    IN  {[family |-> b[1],
          year |-> YearOf(b[2]),
          month |-> MonthOf(b[2]),
          daysMissing |-> Cardinality({m \in dm : In(m, b) /\ m.date_diff > daysDiffLimit}),
          total_days |-> Cardinality({m \in dm : In(m, b)})]
            : b \in bins}

\* proportion_outlier > proportion, proportion given as <<numerator, denominator>>.
Exceeds(g, proportion) ==
    g.daysMissing * proportion[2] > proportion[1] * g.total_days

GroupedCols == {"daysMissing", "total_days", "proportion_outlier"}

\* A row with its columns in C renamed by the merge suffix sfx.
SuffixRow(r, C, sfx) ==
    LET hit == C \cap DOMAIN r
    IN  Drop(r, hit) @@
        [c \in {k \o sfx : k \in hit} |-> r[CHOOSE k \in hit : k \o sfx = c]]

\* Line 149: the left merge on the index (family, year, month).  Columns the
\* two frames share get the suffixes _x (left) and _y (right).
MergeFlags(frame, flagged, overlap) ==
    LET Left(l) ==
            SuffixRow(l, overlap, "_x")
                @@ [year |-> YearOf(l.valueDate), month |-> MonthOf(l.valueDate)]
    IN  LeftMerge(
            [i \in DOMAIN frame |->
                LET l == frame[i]
                    m == SetToSeq({g \in flagged : /\ l.family = g.family
                                                   /\ YearOf(l.valueDate) = g.year
                                                   /\ MonthOf(l.valueDate) = g.month})
                IN  [k \in DOMAIN m |->
                        Left(l) @@ SuffixRow(
                            [daysMissing |-> <<m[k].daysMissing>>,
                             total_days |-> <<m[k].total_days>>,
                             proportion_outlier |-> <<<<m[k].daysMissing, m[k].total_days>>>>],
                            overlap, "_y")]],
            [i \in DOMAIN frame |->
                Left(frame[i]) @@ SuffixRow(
                    [daysMissing |-> NaN, total_days |-> NaN, proportion_outlier |-> NaN],
                    overlap, "_y")])

MergedCols(overlap) ==
    (cols \ overlap) \cup {"year", "month"}
        \cup {c \o "_x" : c \in overlap} \cup {c \o "_y" : c \in overlap}
        \cup (GroupedCols \ overlap)

\* Lines 152-154: fillna(0), then keep proportion_outlier == 0.  A flagged
\* bucket keeps its quotient, which is 0 only when daysMissing is 0.
NotOutlier(r) ==
    \/ IsNaN(r.proportion_outlier)
    \/ Val(r.proportion_outlier)[1] = 0

FillNa(r) ==
    IF IsNaN(r.proportion_outlier)
    THEN [r EXCEPT !.proportion_outlier = <<<<0, 1>>>>]
    ELSE r

InsufficientCols == {"valueDate", "family", "spread", "size"}

\* The call raises after lines 113-114 changed self.df in place.
RaiseAfterDropna(exc, d1) ==
    /\ status' = exc
    /\ df' = [i \in DOMAIN d1 |-> Drop(d1[i], {"valueDate"})]
    /\ cols' = cols \ {"valueDate"}
    /\ index' = [name |-> "valueDate", labels |-> [i \in DOMAIN d1 |-> d1[i].valueDate]]
    /\ aux' = <<>>

\* Lines 122-156 on the frame d1 that line 113 left.
FlagAndFilter(d1, proportion, daysDiffLimit, Group) ==
    \E grouped \in {DfGrouped(d1, daysDiffLimit, Group)} :
    \E flagged \in {{g \in grouped : Exceeds(g, proportion)}} :          \* line 141
    \E merged \in {MergeFlags(d1, flagged, cols \cap GroupedCols)} :     \* line 149
        /\ aux' = [df_grouped |-> grouped, flagged |-> flagged]
        /\ IF "proportion_outlier" \notin MergedCols(cols \cap GroupedCols)
           THEN \* line 152 raises; self.df is the merged frame by now
                /\ status' = "KeyError"
                /\ df' = [i \in DOMAIN merged |->
                             Drop(merged[i], {"family", "year", "month"})]
                /\ cols' = MergedCols(cols \cap GroupedCols) \ {"family", "year", "month"}
                /\ index' = [name |-> "family,year,month",
                             labels |-> [i \in DOMAIN merged |->
                                 <<merged[i].family, merged[i].year, merged[i].month>>]]
           ELSE \E kept \in {SelectSeq(merged, NotOutlier)} :               \* lines 152-156
                /\ status' = "ok"
                /\ df' = [i \in DOMAIN kept |-> FillNa(kept[i])]
                /\ cols' = MergedCols(cols \cap GroupedCols)
                /\ index' = RangeIndex(Len(kept))

removeInsufficientData(proportion, daysDiffLimit, Group) ==
    /\ CanCall
    /\ ops' = Append(ops, Call("removeInsufficientData", <<proportion, daysDiffLimit, Group>>))
    /\ prev' = df
    /\ UNCHANGED input
    /\ IF ~(InsufficientCols \subseteq cols)
       THEN /\ status' = "KeyError"
            /\ UNCHANGED <<df, cols, index, aux>>
       ELSE \E d1 \in {SelectSeq(df, HasSpread)} :                          \* line 113
            \* groupby.apply on a frame without rows (line 118): what df_mean
            \* then looks like depends on the pandas version; the call may
            \* raise there, or go on with empty intermediate frames.
            \/ /\ d1 = <<>>
               /\ RaiseAfterDropna("Error", d1)
            \/ /\ WeightsSumToZero(d1)                                   \* line 118
               /\ RaiseAfterDropna("ZeroDivisionError", d1)
            \/ /\ ~WeightsSumToZero(d1)
               /\ FlagAndFilter(d1, proportion, daysDiffLimit, Group)

Proportions == {<<2, 5>>, <<1, 2>>}

DaysDiffLimits == {10, 38}

Groups == {"Y", "M"}

\* 1 and 2 January, 9 February, 16 December of the first year.
IDays == {0, 1, 39, 349}

IStamps == {Stamp(d, 0) : d \in IDays} \cup {Stamp(0, TicksPerDay - 1)}

IRows ==
    {[family |-> "A", valueDate |-> t, spread |-> <<10>>, size |-> 1] : t \in IStamps}
    \cup {[family |-> "A", valueDate |-> Stamp(d, 0), spread |-> NaN, size |-> 1]
        : d \in {1, 39}}
    \cup {[family |-> "A", valueDate |-> Stamp(0, 0), spread |-> <<10>>, size |-> 0]}
    \cup {[family |-> "B", valueDate |-> Stamp(d, 0), spread |-> <<10>>, size |-> 1]
        : d \in {0, 39}}

InitInsufficient ==
    /\ df \in SeqsUpTo(IRows, MaxRows)
    /\ cols = InsufficientCols
    /\ index = RangeIndex(Len(df))
    /\ status = "ok"
    /\ ops = <<>>
    /\ input = df
    /\ prev = df
    /\ aux = <<>>

NextInsufficient ==
    \E p \in Proportions, l \in DaysDiffLimits, G \in Groups :
        removeInsufficientData(p, l, G)

SpecInsufficient == InitInsufficient /\ [][NextInsufficient]_vars

----------------------------------------------------------------------------
(* Outlier removal: removeOutliers *)

\* rolling(window=100)
Window == 100

\* 0.6745 = ZNum / ZDen, 3.5 = ThresholdTenths / 10
ZNum == 6745

ZDen == 10000

ThresholdTenths == 35

\* The k-th smallest value of the non-empty sequence of integers s.
OrderStat(s, k) ==
    Min({v \in Range(s) : Cardinality({i \in DOMAIN s : s[i] <= v}) >= k})

\* Twice the median of the non-empty sequence of integers s.
Median2(s) ==
    LET n == Len(s)
    IN  IF n % 2 = 1
        THEN 2 * OrderStat(s, (n + 1) \div 2)
        ELSE OrderStat(s, n \div 2) + OrderStat(s, n \div 2 + 1)

\* mad1 = lambda x: np.fabs(x - x.median()).median(), times four.
Mad4(s) ==
    LET m2 == Median2(s)
    IN  Median2([i \in DOMAIN s |-> Abs(2 * s[i] - m2)])

\* The name reset_index gives the column made of an unnamed index.
ResetName(columns) == IF "index" \in columns THEN "level_0" ELSE "index"

IsMonotonic(frame) ==
    \A i \in 1..(Len(frame) - 1) : frame[i].valueDate <= frame[i + 1].valueDate

\* The arrangements of the rows of frame by ascending key, rows of equal key
\* in any order.
RECURSIVE Arrange(_, _)
Arrange(frame, keys) ==
    IF keys = <<>> THEN {<<>>}
    ELSE IF Len(keys) = 1
    THEN LET tie == SelectSeq(frame, LAMBDA r : r.valueDate = keys[1])
         IN  {[i \in DOMAIN tie |-> tie[p[i]]] : p \in Permutations(DOMAIN tie)}
    ELSE LET h == Len(keys) \div 2
         IN  {a \o b : a \in Arrange(frame, SubSeq(keys, 1, h)),
                       b \in Arrange(frame, SubSeq(keys, h + 1, Len(keys)))}

\* sort_index() on the valueDate index: a frame already in ascending order is
\* left as it is; otherwise the sort is numpy's quicksort, which is not
\* stable, so rows of equal valueDate may come out in any order.
SortIndex(frame) ==
    IF IsMonotonic(frame) THEN {frame}
    ELSE Arrange(frame, SortedSeq({r.valueDate : r \in Range(frame)}))

\* The rows of family f, in frame order.
FamilyRows(frame, f) == SelectSeq(frame, LAMBDA r : r.family = f)

\* groupby('family').rolling(window=100).agg(...) after dropna(subset=['Median']):
\* one row per full window.  The row carries the valueDate of the window's last
\* record and the maximum TransactionID found in the window.
WindowId(w) == Max({w[i].TransactionID : i \in DOMAIN w})

WindowRow(f, w) ==
    LET spreads == [i \in DOMAIN w |-> Val(w[i].spread)]
    IN  [family |-> f,
         valueDate |-> w[Len(w)].valueDate,
         MADRollingSpread |-> Mad4(spreads),
         Median |-> Median2(spreads),
         TransactionID |-> WindowId(w)]

\* rolling(window=100) has min_periods = window: the positions of a family's
\* sequence of n records at which a window ends.
WindowEndsMinPeriods(n) == 1..n

WindowEnds(n) == Window..n

DfTradesMad(frame) ==
    LET fams == SetToSeq({r.family : r \in Range(frame)})
    IN
    Concat([k \in DOMAIN fams |->
        LET f == fams[k]
            F == FamilyRows(frame, f)
            ends == SortedSeq(WindowEnds(Len(F)))
        IN  [j \in DOMAIN ends |->
                WindowRow(f, SubSeq(F, Max({1, ends[j] - Window + 1}), ends[j]))]])

\* 0.6745 * (spread - Median) / MADRollingSpread as a float: a quotient
\* num / den, or inf (x / 0, x # 0), or nan (0 / 0).
ModifiedZScore(r) ==
    LET dev == 2 * Val(r.spread) - r.Median
    IN  IF r.MADRollingSpread # 0
        THEN [kind |-> "finite", num |-> ZNum * 2 * dev, den |-> ZDen * r.MADRollingSpread]
        ELSE IF dev # 0 THEN [kind |-> "inf", num |-> dev, den |-> 0]
        ELSE [kind |-> "nan", num |-> 0, den |-> 0]

\* abs(z) <= 3.5; a comparison with nan is False.
WithinThresholdOrNaN(z) ==
    \/ z.kind = "nan"
    \/ z.kind = "finite" /\ Abs(z.num) * 10 <= ThresholdTenths * z.den

WithinThreshold(z) ==
    z.kind = "finite" /\ Abs(z.num) * 10 <= ThresholdTenths * z.den

OutlierCols == {"family", "spread"}

\* rename(columns={from: to})
RenameCol(r, from, to) == Drop(r, {from}) @@ (to :> r[from])

\* Lines 168-170: the index becomes a column (line 168), so does the
\* RangeIndex that replaced it (line 169), and whatever column is named
\* 'index' by then is renamed TransactionID (line 170).
WithIds(frame, idx, columns) ==
    LET name1 == IF idx.name = "" THEN ResetName(columns) ELSE idx.name
        name2 == ResetName(columns \cup {name1})
    IN  [i \in DOMAIN frame |->
            RenameCol((frame[i] @@ (name1 :> idx.labels[i])) @@ (name2 :> i - 1),
                      "index", "TransactionID")]

\* Line 182: the left merge on TransactionID, and line 183: the rows no window
\* row matched are dropped.  The left frame's valueDate is its index, which
\* the merge discards; the valueDate of the result is the window row's.
MergeMad(sorted, mad) ==
    Concat([i \in DOMAIN sorted |->
        LET hits == SelectSeq(mad, LAMBDA m : m.TransactionID = sorted[i].TransactionID)
        IN  [k \in DOMAIN hits |->
                Drop(sorted[i], {"valueDate"})
                    @@ [valueDate |-> hits[k].valueDate,
                        MADRollingSpread |-> hits[k].MADRollingSpread,
                        Median |-> hits[k].Median]]])

\* Line 184: the merged rows with their score.
Scored(merged) ==
    [i \in DOMAIN merged |->
        merged[i] @@ [ModifiedZScore |-> ModifiedZScore(merged[i])]]

\* Line 187
KeepScore(r) == WithinThreshold(r.ModifiedZScore)

removeOutliers ==
    LET call == Call("removeOutliers", <<>>)
        name1 == IF index.name = "" THEN ResetName(cols) ELSE index.name
        cols1 == cols \cup {name1}
        name2 == ResetName(cols1)
        cols3 == ((cols1 \cup {name2}) \ {"index"}) \cup {"TransactionID"}
    IN  /\ CanCall
        \* a second call on the same frame is not modelled
        /\ "TransactionID" \notin cols /\ index.name # "TransactionID"
        /\ ops' = Append(ops, call)
        /\ prev' = df
        /\ UNCHANGED input
        /\ IF name1 \in cols \/ name2 \in cols1
           THEN /\ status' = "ValueError"
                /\ UNCHANGED <<df, cols, index, aux>>
           ELSE IF ~((OutlierCols \cup {"valueDate"}) \subseteq cols3)
           THEN /\ status' = "KeyError"
                /\ UNCHANGED <<df, cols, index, aux>>
           ELSE \E sorted \in SortIndex(WithIds(df, index, cols)) :   \* lines 171-172
                \E mad \in {DfTradesMad(sorted)} :                    \* lines 175-179
                \E scored \in {Scored(MergeMad(sorted, mad))} :
                \E out \in {SelectSeq(scored, KeepScore)} :
                    /\ df' = [i \in DOMAIN out |-> Drop(out[i], {"TransactionID"})]
                    /\ index' = [name |-> "TransactionID",
                                 labels |-> [i \in DOMAIN out |-> out[i].TransactionID]]
                    /\ cols' = (cols3 \ {"TransactionID"})
                                   \cup {"MADRollingSpread", "Median", "ModifiedZScore"}
                    /\ aux' = [sorted |-> sorted, df_trades_mad |-> mad, scored |-> scored]
                    /\ status' = "ok"

----------------------------------------------------------------------------
(* Near-duplicate aggregation: aggregateTimeSimilar *)

\* The order of the family names as Python strings.
FamilyOrder == <<"A", "B">>

FamilyRank(f) == CHOOSE k \in DOMAIN FamilyOrder : FamilyOrder[k] = f

\* The timestamp under the name valueDate: a column, or the index.
ValueDateAt(frame, i) ==
    IF index.name = "valueDate" THEN index.labels[i] ELSE frame[i].valueDate

\* groupby(['family', 'valueDate']): the group keys, sorted.
TimeGroups(frame) ==
    LET keys == {<<frame[i].family, ValueDateAt(frame, i)>> : i \in DOMAIN frame}
        stamps == SortedSeq({k[2] : k \in keys})
    IN  Concat([a \in DOMAIN FamilyOrder |->
            SelectSeq([b \in DOMAIN stamps |-> <<FamilyOrder[a], stamps[b]>>],
                      LAMBDA k : k \in keys)])

\* The values of column c in the rows of group k, in order.
GroupValues(frame, k, c) ==
    LET at == SortedSeq({i \in DOMAIN frame :
                  frame[i].family = k[1] /\ ValueDateAt(frame, i) = k[2]})
    IN  [j \in DOMAIN at |-> frame[at[j]][c]]

\* agg 'median' of a group, as twice its value.
GroupMedianLow(vals) == 2 * OrderStat(vals, (Len(vals) + 1) \div 2)

GroupMedian(vals) == Median2(vals)

\* The median skips NaN; it is NaN when nothing is left.
SpreadMedian(vals) ==
    LET present == SelectSeq(vals, LAMBDA v : ~IsNaN(v))
    IN  IF present = <<>> THEN NaN
        ELSE <<GroupMedian([j \in DOMAIN present |-> Val(present[j])])>>

AggregateCols == {"family", "spread", "size"}

\* Line 203: one row per group, with the medians of spread and size (as twice
\* their value), indexed by the group's valueDate.
AggregateRow(frame, k) ==
    [family |-> k[1],
     spread |-> SpreadMedian(GroupValues(frame, k, "spread")),
     size |-> GroupMedian(GroupValues(frame, k, "size"))]

\* The aggregated frame is the end of the pipeline: no further call on it is
\* modelled.
aggregateTimeSimilar ==
    /\ CanCall
    /\ ops' = Append(ops, Call("aggregateTimeSimilar", <<>>))
    /\ prev' = df
    /\ UNCHANGED input
    /\ IF ~(AggregateCols \subseteq cols
                /\ ("valueDate" \in cols \/ index.name = "valueDate"))
       THEN /\ status' = "KeyError"
            /\ UNCHANGED <<df, cols, index, aux>>
       ELSE \E groups \in {TimeGroups(df)} :
            /\ df' = [g \in DOMAIN groups |-> AggregateRow(df, groups[g])]
            /\ index' = [name |-> "valueDate",
                         labels |-> [g \in DOMAIN groups |-> groups[g][2]]]
            /\ cols' = AggregateCols
            /\ aux' = [prevIndex |-> index]
            /\ status' = "ok"

\* Records as removeOutliers leaves them (no NaN spread survives it), before
\* the aggregation.
GFamilies == {"A", "B"}

GStamps == {Stamp(0, 0), Stamp(0, TicksPerDay - 1)}

GSpreads == {10, 13, 20}

GSizes == {1, 4}

GRows ==
    {[family |-> f, valueDate |-> t, spread |-> <<v>>, size |-> z]
        : f \in GFamilies, t \in GStamps, v \in GSpreads, z \in GSizes}

InitAggregate ==
    /\ df \in SeqsUpTo(GRows, MaxRows)
    /\ cols = AggregateCols \cup {"valueDate"}
    /\ index = RangeIndex(Len(df))
    /\ status = "ok"
    /\ ops = <<>>
    /\ input = df
    /\ prev = df
    /\ aux = <<>>

NextAggregate == aggregateTimeSimilar

SpecAggregate == InitAggregate /\ [][NextAggregate]_vars

----------------------------------------------------------------------------
(* Frames for removeOutliers: a family with about Window records *)

\* Family A's records on days 1 .. Window - 1, one a day, in row order; their
\* spreads are all 10 ("flat") or alternate between 12 and 10 ("varied").
FillerSpread(kind, i) == IF kind = "flat" THEN 10 ELSE 10 + 2 * (i % 2)

Filler(kind) ==
    [i \in 1..(Window - 1) |->
        [family |-> "A", valueDate |-> Stamp(i, 0),
         spread |-> <<FillerSpread(kind, i)>>, size |-> 1]]

\* Further records, before, on or after the last filler day, placed in front
\* of the filler rows or behind them.
OStamps == {Stamp(0, 0), Stamp(Window - 1, 0), Stamp(Window, 0)}

OSpreads == {10, 50}

FreeRows ==
    {[front |-> b, row |-> [family |-> "A", valueDate |-> t, spread |-> <<v>>, size |-> 1]]
        : b \in BOOLEAN, t \in OStamps, v \in OSpreads}
    \cup {[front |-> FALSE,
           row |-> [family |-> "B", valueDate |-> Stamp(Window, 0),
                    spread |-> <<v>>, size |-> 1]] : v \in OSpreads}

\* Number of records beside the filler.
MaxFree == 2

Rows(free) == [i \in DOMAIN free |-> free[i].row]

OutlierFrame(kind, free) ==
    Rows(SelectSeq(free, LAMBDA x : x.front))
        \o Filler(kind)
        \o Rows(SelectSeq(free, LAMBDA x : ~x.front))

\* The frame as removeInsufficientData returns it: a RangeIndex (line 156).
InitOutliers ==
    /\ \E kind \in {"flat", "varied"}, free \in SeqsUpTo(FreeRows, MaxFree) :
            df = OutlierFrame(kind, free)
    /\ cols = {"family", "valueDate", "spread", "size"}
    /\ index = RangeIndex(Len(df))
    /\ status = "ok"
    /\ ops = <<>>
    /\ input = df
    /\ prev = df
    /\ aux = <<>>

NextOutliers == removeOutliers \/ aggregateTimeSimilar

SpecOutliers == InitOutliers /\ [][NextOutliers]_vars


----------------------------------------------------------------------------
(* Properties *)

\* The last call, and whether the calls so far are exactly the named ones.
LastOp == ops[Len(ops)]

Called(names) ==
    /\ Len(ops) = Len(names)
    /\ \A i \in DOMAIN names : ops[i].op = names[i]

\* The last min(2, Len) characters of a ticker.
LastTwo(t) == [i \in 1..Min({2, Len(t)}) |-> t[Len(t) - Min({2, Len(t)}) + i]]

SameDayGroup(a, b) == a.family = b.family /\ DayOf(a.valueDate) = DayOf(b.valueDate)

\* r holds a maximal version of its (family, day) group in frame.
HasMaxVersion(frame, r) ==
    \A x \in Range(frame) :
        SameDayGroup(x, r) => ~StrLess(LastTwo(r.ticker), LastTwo(x.ticker))

TradeKey(r) == Project(r, {"family", "valueDate", "ticker"})

\* C1: after versionsDay followed by keepLatestVersion, the surviving records
\* are exactly the input records whose Version (the last two characters of the
\* ticker, compared as strings) is the maximum of their (family, calendar day)
\* group: every survivor has Version = MaxVersion = that maximum, and every
\* record tied at the maximum survives, as often as it occurs in the input.
C1_LatestVersionsSurvive ==
    (status = "ok" /\ Called(<<"versionsDay", "keepLatestVersion">>)) =>
        /\ \A r \in Range(df) :
              /\ r.Version = LastTwo(r.ticker)
              /\ r.MaxVersion = r.Version
              /\ \E x \in Range(input) : TradeKey(x) = TradeKey(r) /\ HasMaxVersion(input, x)
        /\ \A x \in Range(input) :
              Len(SelectSeq(df, LAMBDA r : TradeKey(r) = TradeKey(x)))
                  = Len(SelectSeq(input, LAMBDA y : TradeKey(y) = TradeKey(x) /\ HasMaxVersion(input, y)))

\* Three records of one family on one day, of which the two tied at the
\* maximum version survive and the third is removed.
C1_Witness ==
    /\ status = "ok"
    /\ Called(<<"versionsDay", "keepLatestVersion">>)
    /\ Len(input) = 3
    /\ \A x \in Range(input) : SameDayGroup(x, input[1])
    /\ Len(df) = 2
    /\ df[1].ticker # df[2].ticker
    /\ \E x \in Range(input) : ~HasMaxVersion(input, x)

InsufficientKey(r) == Project(r, InsufficientCols)

\* C2: removeInsufficientData is idempotent: a second application with the
\* same arguments completes and returns the records the first returned
\* (stated for a first result that holds at least one record).
C2_Idempotent ==
    (Len(ops) = 2 /\ ops[1] = ops[2] /\ prev # <<>>) =>
        /\ status = "ok"
        /\ [i \in DOMAIN df |-> InsufficientKey(df[i])]
               = [i \in DOMAIN prev |-> InsufficientKey(prev[i])]

\* The records of the input that have a spread: what line 113 keeps.
WithSpread == SelectSeq(input, HasSpread)

\* Family A is active on exactly 1 January, 2 January and 9 February (day
\* offsets 1, 2, 40), and the call was made with daysDiffLimit = 10 and
\* proportion = 0.4.
GapScenario ==
    /\ status = "ok"
    /\ Len(ops) = 1
    /\ ops[1].args[1] = <<2, 5>>
    /\ ops[1].args[2] = 10
    /\ {DayOf(r.valueDate) : r \in {x \in Range(WithSpread) : x.family = "A"}} = {0, 1, 39}

FamilyA(frame) == SelectSeq(frame, LAMBDA r : r.family = "A")

GroupedA == {Project(g, {"year", "month", "daysMissing", "total_days"})
                : g \in {x \in aux.df_grouped : x.family = "A"}}

\* C6 as stated: in the gap scenario the family's period has one gap over the
\* limit out of 2, proportion_outlier = 0.5, and all its records are excluded.
C6_AsStated ==
    GapScenario =>
        /\ \E g \in GroupedA : g.daysMissing = 1 /\ g.total_days = 2
        /\ FamilyA(df) = <<>>

\* C6 amended: in the gap scenario total_days counts the active days of the
\* period, not the gaps.  With Group = 'Y' the year has daysMissing = 1 of
\* total_days = 3 (1/3 <= 0.4), the year is not flagged and every record of
\* the family that has a spread survives.  With Group = 'M' January has 0 of 2
\* and its records survive, February has 1 of 1 and its records are excluded.
C6_GapScenario ==
    GapScenario =>
        IF ops[1].args[3] = "Y"
        THEN /\ GroupedA = {[year |-> 0, month |-> 12, daysMissing |-> 1, total_days |-> 3]}
             /\ [i \in DOMAIN FamilyA(df) |-> InsufficientKey(FamilyA(df)[i])]
                    = FamilyA(WithSpread)
        ELSE /\ GroupedA = {[year |-> 0, month |-> 1, daysMissing |-> 0, total_days |-> 2],
                            [year |-> 0, month |-> 2, daysMissing |-> 1, total_days |-> 1]}
             /\ [i \in DOMAIN FamilyA(df) |-> InsufficientKey(FamilyA(df)[i])]
                    = SelectSeq(FamilyA(WithSpread), LAMBDA r : MonthOf(r.valueDate) = 1)

\* The gap scenario with Group = 'Y': the family's three records survive.
C6_Witness ==
    /\ GapScenario
    /\ ops[1].args[3] = "Y"
    /\ Len(FamilyA(df)) = 3

\* The (family, Group-period) of r is flagged: its quotient daysMissing /
\* total_days is greater than proportion.
PeriodFlagged(r) ==
    \E g \in aux.df_grouped :
        /\ g.family = r.family
        /\ g.year = YearOf(r.valueDate)
        /\ ops[1].args[3] = "M" => g.month = MonthOf(r.valueDate)
        /\ g.daysMissing * ops[1].args[1][2] > ops[1].args[1][1] * g.total_days

\* C7: after removeInsufficientData, for Group 'M' and 'Y' alike, a record
\* survives if and only if it has a spread and its (family, Group-period) is
\* not flagged: every record of a flagged period is excluded, whatever its month.
C7_AllOrNothing ==
    (status = "ok" /\ Len(ops) = 1) =>
        \A x \in Range(input) :
            Len(SelectSeq(df, LAMBDA r : InsufficientKey(r) = x))
                = IF HasSpread(x) /\ ~PeriodFlagged(x)
                  THEN Len(SelectSeq(input, LAMBDA y : y = x))
                  ELSE 0

\* Twice the median of a non-empty sequence of integers, from its sorted copy.
SortedMedian2(vals) ==
    LET sorted == SortSeq(vals, LAMBDA a, b : a < b)
        n == Len(vals)
    IN  IF n % 2 = 1 THEN 2 * sorted[(n + 1) \div 2]
        ELSE sorted[n \div 2] + sorted[n \div 2 + 1]

\* Four times the median absolute deviation of a non-empty sequence of integers.
SortedMad4(vals) ==
    SortedMedian2([i \in DOMAIN vals |-> Abs(2 * vals[i] - SortedMedian2(vals))])

OutliersDone == status = "ok" /\ Called(<<"removeOutliers">>)

\* C3: every record that survives removeOutliers has a finite ModifiedZScore
\* = 0.6745 * (spread - Median) / MADRollingSpread of absolute value at most
\* 3.5 (Median is carried doubled, MADRollingSpread quadrupled, and the score
\* as the fraction num / den).
C3_OutlierBound ==
    OutliersDone =>
        \A r \in Range(df) :
            /\ r.MADRollingSpread > 0
            /\ r.ModifiedZScore.kind = "finite"
            /\ r.ModifiedZScore.num = 6745 * 2 * (2 * Val(r.spread) - r.Median)
            /\ r.ModifiedZScore.den = 10000 * r.MADRollingSpread
            /\ 6745 * 2 * Abs(2 * Val(r.spread) - r.Median) * 10
                   <= 35 * 10000 * r.MADRollingSpread

\* A record survives, a record with a finite score above 3.5 is excluded, and
\* so is a record whose window has MADRollingSpread = 0.
C3_Witness ==
    /\ OutliersDone
    /\ df # <<>>
    /\ \E i \in DOMAIN aux.scored :
          /\ aux.scored[i].ModifiedZScore.kind = "finite"
          /\ ~KeepScore(aux.scored[i])
    /\ \E i \in DOMAIN aux.scored : aux.scored[i].MADRollingSpread > 0

\* C4: a family with fewer than 100 records in the input of removeOutliers
\* contributes no record to its output.
C4_SmallFamilies ==
    OutliersDone =>
        \A f \in {x.family : x \in Range(input)} :
            Len(SelectSeq(input, LAMBDA x : x.family = f)) < 100 =>
                \A r \in Range(df) : r.family # f

\* A family with records, but fewer than 100, beside a family that contributes.
C4_Witness ==
    /\ OutliersDone
    /\ Len(SelectSeq(input, LAMBDA x : x.family = "B")) \in 1..99
    /\ \E i \in DOMAIN input : input[i].family = "B" /\ Val(input[i].spread) = 10
    /\ df # <<>>

\* C8: when a record's window has MADRollingSpread = 0 the record gets an
\* explicit sentinel or is skipped: no infinite or undefined ModifiedZScore is
\* among the scores compared with 3.5 (line 187).
C8_NoDegenerateComparison ==
    OutliersDone =>
        \A i \in DOMAIN aux.scored : aux.scored[i].ModifiedZScore.kind = "finite"

\* The position of the record with TransactionID t in its family's sequence,
\* in the valueDate-ascending order the call sorted the frame into.
FamilySequence(f) == FamilyRows(aux.sorted, f)

PositionOf(f, t) ==
    CHOOSE p \in DOMAIN FamilySequence(f) : FamilySequence(f)[p].TransactionID = t

WindowSpreads(f, p) ==
    [i \in 1..100 |-> Val(FamilySequence(f)[p - 100 + i].spread)]

\* C9: for every input row order, the Median and MADRollingSpread joined to a
\* record through TransactionID are those of the 100 consecutive same-family
\* records, in valueDate-ascending order, that end at that very record; so a
\* record among the first 99 positions of its family's sequence is joined to
\* nothing and never survives.
C9_WindowEndsAtRecord ==
    OutliersDone =>
        \A i \in DOMAIN aux.scored :
            LET r == aux.scored[i]
                p == PositionOf(r.family, r.TransactionID)
            IN  /\ p >= 100
                /\ r.Median = SortedMedian2(WindowSpreads(r.family, p))
                /\ r.MADRollingSpread = SortedMad4(WindowSpreads(r.family, p))

NoRepeats(s) == \A i, j \in DOMAIN s : s[i] = s[j] => i = j

\* C10: removeOutliers is a pure filter for every input row order: the
\* TransactionIDs of the input records are pairwise distinct, the output's
\* TransactionID index has no repeated value, and the output has no more rows
\* than the input.
C10_PureFilter ==
    OutliersDone =>
        /\ NoRepeats([i \in DOMAIN aux.sorted |-> aux.sorted[i].TransactionID])
        /\ NoRepeats(index.labels)
        /\ Len(df) <= Len(input)

TimeKey(r) == <<r.family, r.valueDate>>

\* The values of column c of the input records with key k.
InputValues(k, c) ==
    LET rows == SelectSeq(input, LAMBDA r : TimeKey(r) = k)
    IN  [i \in DOMAIN rows |-> rows[i][c]]

\* C5: after aggregateTimeSimilar every (family, valueDate) pair of the input
\* appears exactly once in the output and no other pair does, and the output
\* row's spread and size are the medians (carried doubled) of the spreads and
\* sizes of the input records with that family and timestamp.
C5_AggregatedMedians ==
    (status = "ok" /\ Called(<<"aggregateTimeSimilar">>)) =>
        /\ {<<df[i].family, index.labels[i]>> : i \in DOMAIN df}
               = {TimeKey(r) : r \in Range(input)}
        /\ NoRepeats([i \in DOMAIN df |-> <<df[i].family, index.labels[i]>>])
        /\ \A i \in DOMAIN df :
              LET k == <<df[i].family, index.labels[i]>>
              IN  /\ df[i].spread
                         = <<SortedMedian2([j \in DOMAIN InputValues(k, "spread")
                                 |-> Val(InputValues(k, "spread")[j])])>>
                  /\ df[i].size = SortedMedian2(InputValues(k, "size"))

\* Two records of one family and timestamp with different spreads collapse
\* into one row, beside a record of another key.
C5_Witness ==
    /\ status = "ok"
    /\ Called(<<"aggregateTimeSimilar">>)
    /\ Len(input) = 3
    /\ Len(df) = 2
    /\ \E i, j \in DOMAIN input :
          /\ TimeKey(input[i]) = TimeKey(input[j])
          /\ input[i].spread # input[j].spread
          /\ input[i].size # input[j].size

=============================================================================
